---- MODULE Spec2Model ----
(***************************************************************************)
(* Model of the shared number-theory library of euler/__init__.py.         *)
(*                                                                         *)
(* The interpreter is modelled as a sequential machine: `fn` is the        *)
(* library function the top-level caller invoked last, `pc` the position   *)
(* of the running frame ("done" when no frame is active), `ret` the value  *)
(* returned and `exc` the exception that escaped.  Functions that loop or  *)
(* recurse on their own state (gcd, isqrt, multiplicative_order) run one   *)
(* iteration per step; loop-free computations are operators.               *)
(***************************************************************************)
EXTENDS Integers, Sequences, FiniteSets, TLC

VARIABLES fn, pc, a, b, n, ga, gb, x, y, k, ret, ret_list, ret_bool, exc,
          prime_memo, fib_memo, collatz_memo,
          sot_test, sot_memo, sot_calls,
          Primes_memo, results,
          todo, answer, expected,
          tokens, cards, rank, high_card

vars == <<fn, pc, a, b, n, ga, gb, x, y, k, ret, ret_list, ret_bool, exc,
          prime_memo, fib_memo, collatz_memo,
          sot_test, sot_memo, sot_calls,
          Primes_memo, results,
          todo, answer, expected,
          tokens, cards, rank, high_card>>

\* the value returned is ret when it is an integer, ret_list when it is
\* a list and ret_bool when it is a truth value
memos == <<prime_memo, fib_memo, collatz_memo>>

\* a SetOfThings instance: its test_callable, its memo, and how often the
\* test_callable was invoked on each value
sot == <<sot_test, sot_memo, sot_calls>>

\* the memo of the module-level instance Primes, and the `result` of the
\* solution modules imported so far
solutions == <<Primes_memo, results>>

\* the harness loop: the problems still to run, the answer of the current
\* one and the recorded answer it is compared with
harness == <<todo, answer, expected>>

\* a Hand of p054 under construction
hand == <<tokens, cards, rank, high_card>>

ext == <<sot, solutions, harness, hand>>

----------------------------------------------------------------------------
(* Bounds of the explored inputs *)

MaxN == 40
MaxNeg == 3
MaxG == 12
MaxL == 6
MaxSq == 50
MaxModulus == 7
MaxBase == 5
MaxK == 8
MaxP == 25
MaxMemo == 2
MaxFib == 15
MaxCollatz == 13
MaxKey == 2
MaxTestValue == 2
MaxAnswer == 2
MaxLib == 3
MaxCircular == 80
MaxTruncatable == 3
MaxPandigital == 4
MaxTokens == 6

----------------------------------------------------------------------------
(* Python integer arithmetic *)

\* the least argument tried
MinN == 0 - MaxNeg

Abs(i) == IF i < 0 THEN 0 - i ELSE i

\* Python's i % j: the result has the sign of the divisor j
PyMod(i, j) == IF j > 0 THEN i % j ELSE 0 - ((0 - i) % (0 - j))

\* Python's i // j: floor division
PyFloorDiv(i, j) ==
    LET r == PyMod(i, j)
        d == i - r
    IN  IF (d >= 0) = (j > 0) THEN Abs(d) \div Abs(j)
        ELSE 0 - (Abs(d) \div Abs(j))

RECURSIVE Pow(_, _)
Pow(i, e) == IF e = 0 THEN 1 ELSE i * Pow(i, e - 1)

\* int(math.sqrt(m)) for m >= 0
IntSqrt(m) == CHOOSE s \in 0..m : s * s <= m /\ (s + 1) * (s + 1) > m

----------------------------------------------------------------------------
(* Mathematical vocabulary used by the properties *)

IsPrimeNumber(p) == p >= 2 /\ \A d \in 2..(p - 1) : p % d # 0

Divides(d, m) == d # 0 /\ PyMod(m, d) = 0

RECURSIVE SeqProduct(_)
SeqProduct(s) == IF s = <<>> THEN 1 ELSE Head(s) * SeqProduct(Tail(s))

StrictlyAscending(s) == \A i \in 1..(Len(s) - 1) : s[i] < s[i + 1]

NonDecreasing(s) == \A i \in 1..(Len(s) - 1) : s[i] <= s[i + 1]

Range(s) == {s[i] : i \in 1..Len(s)}

----------------------------------------------------------------------------
(* primes(n): the sieve *)

\* r[start::step] = [False] * len(r[start::step])
SliceClear(r, start, step) ==
    [j \in DOMAIN r |-> IF j >= start /\ (j - start) % step = 0
                        THEN FALSE ELSE r[j]]

\* for i in range(i, stop): if r[i]: r[3*i::2*i] = ...
RECURSIVE SieveLoop(_, _, _)
SieveLoop(r, i, stop) ==
    IF i >= stop THEN r
    ELSE SieveLoop(IF r[i] THEN SliceClear(r, 3 * i, 2 * i) ELSE r,
                   i + 1, stop)

\* [i for i, x in enumerate(r) if x], from index i on
RECURSIVE Enumerate(_, _, _)
Enumerate(r, i, len) ==
    IF i >= len THEN <<>>
    ELSE (IF r[i] THEN <<i>> ELSE <<>>) \o Enumerate(r, i + 1, len)

SieveStop_off(m) == IntSqrt(m)

\* range(int(1 + math.sqrt(n)))
SieveStop(m) == 1 + IntSqrt(m)

primes(m) ==
    IF m <= 2 THEN <<>>
    ELSE LET r0 == [j \in 0..(m - 1) |-> TRUE]
             r1 == [r0 EXCEPT ![0] = FALSE, ![1] = FALSE]
             r2 == SliceClear(r1, 4, 2)
             r3 == SieveLoop(r2, 0, SieveStop(m))
         IN  Enumerate(r3, 0, m)

----------------------------------------------------------------------------
(* factorise(n) and divisors(n) *)

\* the first i in range(lo, hi) with m % i == 0, or 0 when the loop
\* falls through to its else clause
RECURSIVE FirstFactor(_, _, _)
FirstFactor(m, lo, hi) ==
    IF lo >= hi THEN 0
    ELSE IF m % lo = 0 THEN lo
    ELSE FirstFactor(m, lo + 1, hi)

RECURSIVE factorise(_)
factorise(m) ==
    IF m < 0
    THEN LET result == factorise(0 - m)
         IN  [result EXCEPT ![1] = result[1] * (0 - 1)]
    ELSE LET i == FirstFactor(m, 2, 1 + IntSqrt(m))
         IN  IF i # 0 THEN <<i>> \o factorise(m \div i)
             ELSE <<m>>

\* sorted(...) of a set of integers
RECURSIVE Sorted(_)
Sorted(S) ==
    IF S = {} THEN <<>>
    ELSE LET lo == CHOOSE e \in S : \A f \in S : e <= f
         IN  <<lo>> \o Sorted(S \ {lo})

\* reduce(op.mul, c, 1) for the combination c that picks the positions idx
RECURSIVE ComboProduct(_, _, _)
ComboProduct(factors, idx, i) ==
    IF i > Len(factors) THEN 1
    ELSE (IF i \in idx THEN factors[i] ELSE 1)
         * ComboProduct(factors, idx, i + 1)

\* it.combinations(factors, i) for i in range(len(factors) + 1)
CombinationSizes_short(factors) == 0..(Len(factors) - 1)

CombinationSizes(factors) == 0..Len(factors)

divisors(m) ==
    LET factors == factorise(m)
    IN  Sorted({ComboProduct(factors, idx, 1) :
                  idx \in {c \in SUBSET (1..Len(factors)) :
                             Cardinality(c) \in CombinationSizes(factors)}})

----------------------------------------------------------------------------
(* is_prime(n, memo) *)

TrialStop_off(m) == IntSqrt(m)

\* the stop of range(3, int(1 + math.sqrt(n)), 2)
TrialStop(m) == 1 + IntSqrt(m)

\* False if n % 2 == 0 or n <= 0 else all(n % i for i in range(3, stop, 2))
is_prime_test(m) ==
    IF PyMod(m, 2) = 0 \/ m <= 0 THEN FALSE
    ELSE \A i \in {j \in 3..(TrialStop(m) - 1) : (j - 3) % 2 = 0} : m % i # 0

\* the default argument memo={1: False, 2: True, 3: True}
PrimeMemoInit == (1 :> FALSE) @@ (2 :> TRUE) @@ (3 :> TRUE)

is_prime_bymemo(m, memo) ==
    LET memo1 == IF m \notin DOMAIN memo
                 THEN memo @@ (m :> (m > 0 /\ \A i \in DOMAIN memo :
                                        (memo[i] /\ i < m) => m % i # 0))
                 ELSE memo
    IN  <<memo1[m], memo1>>

\* is_prime against the table memo: <<value returned, table afterwards>>
is_prime(m, memo) ==
    LET memo1 == IF m \notin DOMAIN memo
                 THEN memo @@ (m :> is_prime_test(m)) ELSE memo
    IN  <<memo1[m], memo1>>

----------------------------------------------------------------------------
(* fib_r(n, memo), fib_gen() and fib_i(n) *)

FibMemoInit_ones == (0 :> 1) @@ (1 :> 1)

\* the default argument memo={0: 0, 1: 1}
FibMemoInit == (0 :> 0) @@ (1 :> 1)

\* fib_r against the table memo: <<value returned, table afterwards>>;
\* fib(n - 1) is evaluated, and stored, before fib(n - 2)
RECURSIVE fib_r(_, _)
fib_r(m, memo) ==
    IF m \in DOMAIN memo THEN <<memo[m], memo>>
    ELSE LET r1 == fib_r(m - 1, memo)
             r2 == fib_r(m - 2, r1[2])
             v == r1[1] + r2[1]
         IN  <<v, (m :> v) @@ r2[2]>>

\* the value fib_gen yields at position i, the loop being at (f_, f)
\* when it yields position j >= 1
RECURSIVE FibGenAt(_, _, _, _)
FibGenAt(i, j, fprev, f) ==
    IF i = j THEN f ELSE FibGenAt(i, j + 1, f, f + fprev)

\* next(it.islice(fib_gen(), n, n + 1))
fib_i(m) == IF m = 0 THEN 0 ELSE FibGenAt(m, 1, 0, 1)

----------------------------------------------------------------------------
(* collatz(n, memo) *)

CollatzNext(m) == IF PyMod(m, 2) # 0 THEN 3 * m + 1 ELSE PyFloorDiv(m, 2)

CollatzCons_dropped(m, rest) == rest

\* [n] + collatz(...)
CollatzCons(m, rest) == <<m>> \o rest

\* collatz against the table memo: <<list returned, table afterwards>>
RECURSIVE collatz(_, _)
collatz(m, memo) ==
    IF m \in DOMAIN memo THEN <<memo[m], memo>>
    ELSE LET r == collatz(CollatzNext(m), memo)
             v == CollatzCons(m, r[1])
         IN  <<v, (m :> v) @@ r[2]>>

----------------------------------------------------------------------------
(* SetOfThings *)

\* the values queried of the instance under test
SotKeys == 0..MaxKey

\* what its test_callable may return: 0 is falsy, the others are truthy
SotValues == 0..MaxTestValue

\* Python's truth value of v
Truth(v) == v # 0

NeedsTest_always(key, memo) == TRUE

\* if n not in self.memo
NeedsTest(key, memo) == key \notin DOMAIN memo

\* __contains__(n) of an instance whose test_callable is the function test:
\* <<value returned, memo afterwards, invocations of test afterwards>>
SotContains(key, memo, calls, test) ==
    LET invoke == NeedsTest(key, memo)
        memo1 == IF invoke
                 THEN [j \in DOMAIN memo \cup {key} |->
                          IF j = key THEN test[key] ELSE memo[j]]
                 ELSE memo
        calls1 == IF invoke THEN [calls EXCEPT ![key] = @ + 1] ELSE calls
    IN  <<memo1[key], memo1, calls1>>

----------------------------------------------------------------------------
(* Solution modules *)

Solutions == {"p035", "p037", "p041"}

\* results[m] before module m was imported
NotRun == 0 - 1

\* what p041.f() returns when its while loop ends: None, written 0 (no
\* pandigital number is 0)
NoResult == 0

\* the two tables the solutions share: pm is the memo of is_prime, sm the
\* memo of Primes = SetOfThings(is_prime)
Tables(pm, sm) == [pm |-> pm, sm |-> sm]

\* v in Primes: <<answer, tables afterwards>>
InPrimes(v, st) ==
    LET t == is_prime(v, st.pm)
        r == SotContains(v, st.sm, [j \in {v} |-> 0], [j \in {v} |-> t[1]])
    IN  <<r[1], Tables(IF NeedsTest(v, st.sm) THEN t[2] ELSE st.pm, r[2])>>

\* str(v) for v >= 0, as the sequence of its decimal digits
RECURSIVE Str(_)
Str(v) == IF v < 10 THEN <<v>> ELSE Str(v \div 10) \o <<v % 10>>

\* int(s) for a non-empty sequence of decimal digits
RECURSIVE ParseInt(_)
ParseInt(s) ==
    IF Len(s) = 1 THEN s[1]
    ELSE 10 * ParseInt(SubSeq(s, 1, Len(s) - 1)) + s[Len(s)]

\* s[i:] and s[:i]
SliceFrom(s, i) == SubSeq(s, i + 1, Len(s))
SliceTo(s, i) == SubSeq(s, 1, i)

\* p035: all(int(str(p)[n:] + str(p)[:n]) in Primes
\*           for n in range(i, len(str(p))))
RECURSIVE AllRotations(_, _, _)
AllRotations(v, i, st) ==
    IF i >= Len(Str(v)) THEN <<TRUE, st>>
    ELSE LET r == InPrimes(ParseInt(SliceFrom(Str(v), i) \o SliceTo(Str(v), i)),
                           st)
         IN  IF r[1] THEN AllRotations(v, i + 1, r[2]) ELSE <<FALSE, r[2]>>

\* p035: sum(1 for p in ps[idx:] if all(...)), added to count
RECURSIVE P035Sum(_, _, _, _)
P035Sum(ps, idx, count, st) ==
    IF idx > Len(ps) THEN <<count, st>>
    ELSE LET r == AllRotations(ps[idx], 1, st)
         IN  IF r[1] THEN P035Sum(ps, idx + 1, count + 1, r[2])
             ELSE P035Sum(ps, idx + 1, count, r[2])

\* p035 with primes(1000000) scaled to primes(MaxCircular)
p035(st) == P035Sum(primes(MaxCircular), 1, 0, st)

\* p037: all(int(str_n[k:]) in Primes and int(str_n[:k]) in Primes
\*           for k in range(i, len_n))
RECURSIVE AllTruncations(_, _, _)
AllTruncations(v, i, st) ==
    IF i >= Len(Str(v)) THEN <<TRUE, st>>
    ELSE LET r1 == InPrimes(ParseInt(SliceFrom(Str(v), i)), st)
         IN  IF ~r1[1] THEN <<FALSE, r1[2]>>
             ELSE LET r2 == InPrimes(ParseInt(SliceTo(Str(v), i)), r1[2])
                  IN  IF r2[1] THEN AllTruncations(v, i + 1, r2[2])
                      ELSE <<FALSE, r2[2]>>

\* p037: for n in count(v, 2), with the `count_ == 11` of the source
\* scaled to MaxTruncatable
RECURSIVE P037Loop(_, _, _, _)
P037Loop(v, count, total, st) ==
    LET r1 == InPrimes(v, st)
        r2 == IF r1[1] THEN AllTruncations(v, 1, r1[2]) ELSE r1
    IN  IF ~r2[1] THEN P037Loop(v + 2, count, total, r2[2])
        ELSE IF count + 1 = MaxTruncatable THEN <<total + v, r2[2]>>
        ELSE P037Loop(v + 2, count + 1, total + v, r2[2])

p037(st) == P037Loop(11, 0, 0, st)

\* s without its element at position idx
Without(s, idx) == SubSeq(s, 1, idx - 1) \o SubSeq(s, idx + 1, Len(s))

\* [<<e>> \o t for t in ts[j:]]
RECURSIVE PrependAll(_, _, _)
PrependAll(e, ts, j) ==
    IF j > Len(ts) THEN <<>>
    ELSE <<(<<e>> \o ts[j])>> \o PrependAll(e, ts, j + 1)

\* itertools.permutations(pool, len(pool)) in the order it yields them:
\* those starting with pool[idx], pool[idx + 1], ...
RECURSIVE permutations(_, _)
permutations(pool, idx) ==
    IF pool = <<>> THEN <<(<<>>)>>
    ELSE IF idx > Len(pool) THEN <<>>
    ELSE PrependAll(pool[idx], permutations(Without(pool, idx), 1), 1)
         \o permutations(pool, idx + 1)

\* ''.join(str(d) for d in range(i, 0, -1))
DigitsDown(i) == [j \in 1..i |-> i + 1 - j]

\* p041: the for loop over the permutations ts[lo..hi], taken in order as
\* ts[lo..mid] followed by ts[mid+1..hi]; 0 when it falls through to its
\* else clause
RECURSIVE P041For(_, _, _, _)
P041For(ts, lo, hi, st) ==
    IF lo > hi THEN <<0, st>>
    ELSE IF lo = hi
    THEN LET r == is_prime(ParseInt(ts[lo]), st.pm)
         IN  <<IF r[1] THEN ParseInt(ts[lo]) ELSE 0, Tables(r[2], st.sm)>>
    ELSE LET mid == (lo + hi) \div 2
             r == P041For(ts, lo, mid, st)
         IN  IF r[1] # 0 THEN r ELSE P041For(ts, mid + 1, hi, r[2])

\* p041: while i > 0
RECURSIVE P041While(_, _)
P041While(i, st) ==
    IF i <= 0 THEN <<NoResult, st>>
    ELSE LET ts == permutations(DigitsDown(i), 1)
             r == P041For(ts, 1, Len(ts), st)
         IN  IF r[1] # 0 THEN r ELSE P041While(i - 1, r[2])

\* p041 with the `i = 9` of the source scaled to MaxPandigital
p041(st) == P041While(MaxPandigital, st)

\* importing module m: <<its result, tables afterwards>>
RunModule(m, st) ==
    IF m = "p035" THEN p035(st)
    ELSE IF m = "p037" THEN p037(st)
    ELSE p041(st)

\* the result of each module when it is the first thing a fresh process runs
FreshResults ==
    [m \in Solutions |-> RunModule(m, Tables(PrimeMemoInit, <<>>))[1]]

----------------------------------------------------------------------------
(* Python values seen by the harness *)

None == [type |-> "NoneType", val |-> 0]

PyInt(v) == [type |-> "int", val |-> v]

\* u == v
PyEq(u, v) == u = v

\* the problem numbers n of the modules p{n:03d} the harness is run on
ProblemIds == {5, 26, 41, 59}

\* getattr(module, 'result', None): p059 assigns no `result`, every other
\* module assigns an int
ModuleResults(p) ==
    IF p = 59 THEN {None} ELSE {PyInt(v) : v \in 1..MaxAnswer}

\* what get_result may return, over all modules
ResultValues == UNION {ModuleResults(p) : p \in ProblemIds}

\* the values my_answers[p] may hold
RecordedAnswers == {PyInt(v) : v \in 1..MaxAnswer} \cup {None}

\* the exception raised by f'{answer:16d}', "none" when it formats
Format16d(v) ==
    IF v.type \in {"int", "bool"} THEN "none"
    ELSE IF v.type \in {"float", "str"} THEN "ValueError"
    ELSE "TypeError"

----------------------------------------------------------------------------
(* p054: Card and Hand *)

\* ['2', '3', '4', '5', '6', '7', '8', '9', 'T', 'J', 'Q', 'K', 'A']
ValueOrder == <<"2", "3", "4", "5", "6", "7", "8", "9", "T", "J", "Q", "K", "A">>

\* Card.values = {k: v for v, k in enumerate([...], 2)}
CardValues ==
    [c \in Range(ValueOrder) |->
        (CHOOSE i \in DOMAIN ValueOrder : ValueOrder[i] = c) + 1]

\* Card.suits = {k[0].upper(): k for k in (...)}
CardSuits ==
    ("C" :> "clubs") @@ ("S" :> "spades") @@ ("D" :> "diamonds")
        @@ ("H" :> "hearts")

\* the attribute high_card while it is None
NoCard == [value |-> 0, suit |-> "none"]

\* except KeyError: raise ValueError(...)
CardError == "ValueError"

\* Card(vs) for the string vs, a sequence of characters: the exception
\* raised ("none" when there is none) and the card built
Card(vs) ==
    IF Len(vs) # 2
    THEN [exc |-> "ValueError", card |-> NoCard]
    ELSE IF vs[1] \notin DOMAIN CardValues \/ vs[2] \notin DOMAIN CardSuits
    THEN [exc |-> CardError, card |-> NoCard]
    ELSE [exc |-> "none",
          card |-> [value |-> CardValues[vs[1]], suit |-> CardSuits[vs[2]]]]

\* sorted(cs, key=attrgetter('value')): cards of equal value keep their order
RECURSIVE SortedByValue(_)
SortedByValue(cs) ==
    IF cs = <<>> THEN <<>>
    ELSE LET i == CHOOSE j \in DOMAIN cs :
                     /\ \A h \in DOMAIN cs : cs[j].value <= cs[h].value
                     /\ \A h \in 1..(j - 1) : cs[h].value # cs[j].value
         IN  <<cs[i]>> \o SortedByValue(Without(cs, i))

HandSizeOk_atleast(cs) == Len(cs) >= 5

\* the negation of `len(self.cards) != 5`
HandSizeOk(cs) == Len(cs) = 5

\* len({x.suit for x in self.cards}) == 1
is_flush(cs) == Cardinality({cs[i].suit : i \in DOMAIN cs}) = 1

\* [x.value for x in self.cards] == list(range(low_value, low_value + 5))
is_straight(cs) ==
    LET low_value == cs[1].value
    IN  Len(cs) = 5 /\ \A i \in DOMAIN cs : cs[i].value = low_value + i - 1

\* {x.value for x in self.cards}
ValueSet(cs) == {cs[i].value : i \in DOMAIN cs}

\* sum(1 for x in self.cards if x.value == v)
CountValue(cs, v) == Cardinality({i \in DOMAIN cs : cs[i].value = v})

\* next(c for c in self.cards if sum(...) == cnt): the position of c, or 0
\* when next raises StopIteration
NextWithCount(cs, cnt) ==
    LET S == {i \in DOMAIN cs : CountValue(cs, cs[i].value) = cnt}
    IN  IF S = {} THEN 0 ELSE CHOOSE i \in S : \A j \in S : i <= j

\* self.cards[-1]
Last(cs) == cs[Len(cs)]

\* what _check_hand leaves: rank, high_card and the exception that escapes
Checked(r, c, e) == [rank |-> r, high_card |-> c, exc |-> e]

\* the branch of _check_hand for two pairs, entered after next(...) == 3
\* raised StopIteration
TwoPairs(cs) ==
    LET extra == NextWithCount(cs, 1)
        rest == SelectSeq(cs, LAMBDA c : c.value # cs[extra].value)
    IN  IF extra = 0 THEN Checked("Two Pairs", NoCard, "StopIteration")
        ELSE IF rest = <<>> THEN Checked("Two Pairs", NoCard, "IndexError")
        ELSE Checked("Two Pairs", Last(rest), "none")

check_hand(cs) ==
    IF is_flush(cs) /\ is_straight(cs)
    THEN Checked(IF Last(cs).value = Card(<<"A", "S">>).card.value
                 THEN "Royal Flush" ELSE "Straight Flush", Last(cs), "none")
    ELSE IF Cardinality(ValueSet(cs)) = 2
    THEN IF NextWithCount(cs, 4) # 0
         THEN Checked("Four of a Kind", cs[NextWithCount(cs, 4)], "none")
         ELSE IF NextWithCount(cs, 3) # 0
         THEN Checked("Full House", cs[NextWithCount(cs, 3)], "none")
         ELSE Checked("Full House", NoCard, "StopIteration")
    ELSE IF is_flush(cs) THEN Checked("Flush", Last(cs), "none")
    ELSE IF is_straight(cs) THEN Checked("Straight", Last(cs), "none")
    ELSE IF Cardinality(ValueSet(cs)) = 3
    THEN IF NextWithCount(cs, 3) # 0
         THEN Checked("Three of a Kind", cs[NextWithCount(cs, 3)], "none")
         ELSE TwoPairs(cs)
    ELSE IF Cardinality(ValueSet(cs)) = 4
    THEN IF NextWithCount(cs, 2) # 0
         THEN Checked("One Pair", cs[NextWithCount(cs, 2)], "none")
         ELSE Checked("One Pair", NoCard, "StopIteration")
    ELSE Checked("High Card", Last(cs), "none")

\* Hand.__init__ from the sorted list on: the length test, _check_hand and
\* the assert
HandChecked(cs) ==
    IF ~HandSizeOk(cs) THEN Checked("None", NoCard, "ValueError")
    ELSE LET h == check_hand(cs)
         IN  IF h.exc = "none" /\ (h.rank = "None" \/ h.high_card = NoCard)
             THEN [h EXCEPT !.exc = "AssertionError"]
             ELSE h

\* the strings x that cards.split() may hold: seven cards, and strings that
\* are too short, too long, have a character outside the tables, or have
\* the two characters in the wrong order
TokenPool ==
    {<<"9", "S">>, <<"T", "S">>, <<"J", "S">>, <<"Q", "S">>, <<"K", "S">>,
     <<"A", "S">>, <<"A", "H">>,
     <<"A">>, <<"1", "0", "H">>, <<"1", "S">>, <<"A", "s">>, <<"S", "A">>}

----------------------------------------------------------------------------
(* Initial state: the module has just been imported *)

Init ==
    /\ fn = "none" /\ pc = "done"
    /\ a = 0 /\ b = 0 /\ n = 0
    /\ ga = 0 /\ gb = 0 /\ x = 0 /\ y = 0 /\ k = 0
    /\ ret = 0 /\ ret_list = <<>> /\ ret_bool = FALSE /\ exc = "none"
    /\ prime_memo = PrimeMemoInit
    /\ fib_memo = FibMemoInit
    /\ collatz_memo = (1 :> <<1>>)
    /\ sot_test = [key \in SotKeys |-> 0]
    /\ sot_memo = <<>>
    /\ sot_calls = [key \in SotKeys |-> 0]
    /\ Primes_memo = <<>>
    /\ results = [m \in Solutions |-> NotRun]
    /\ todo = <<>> /\ answer = None /\ expected = None
    /\ tokens = <<>> /\ cards = <<>> /\ rank = "None" /\ high_card = NoCard

\* a call that runs to completion in one step: the frame is popped with
\* the value returned (or the exception raised)
Finish(f, va, vb, vn, vint, vlist, vbool, e) ==
    /\ fn' = f /\ pc' = "done"
    /\ a' = va /\ b' = vb /\ n' = vn
    /\ ga' = 0 /\ gb' = 0 /\ x' = 0 /\ y' = 0 /\ k' = 0
    /\ ret' = vint /\ ret_list' = vlist /\ ret_bool' = vbool /\ exc' = e

\* a call that enters a loop or a recursion at position p
Enter(f, p, va, vb, vn, vga, vgb, vx, vy) ==
    /\ fn' = f /\ pc' = p
    /\ a' = va /\ b' = vb /\ n' = vn
    /\ ga' = vga /\ gb' = vgb /\ x' = vx /\ y' = vy /\ k' = 0
    /\ ret' = 0 /\ ret_list' = <<>> /\ ret_bool' = FALSE /\ exc' = "none"

----------------------------------------------------------------------------
(* Loop-free library calls *)

CallPrimes(m) ==
    /\ pc = "done"
    /\ Finish("primes", 0, 0, m, 0, primes(m), FALSE, "none")
    /\ UNCHANGED memos
    /\ UNCHANGED ext

CallFactorise(m) ==
    /\ pc = "done"
    /\ Finish("factorise", 0, 0, m, 0, factorise(m), FALSE, "none")
    /\ UNCHANGED memos
    /\ UNCHANGED ext

CallDivisors(m) ==
    /\ pc = "done"
    /\ Finish("divisors", 0, 0, m, 0, divisors(m), FALSE, "none")
    /\ UNCHANGED memos
    /\ UNCHANGED ext

----------------------------------------------------------------------------
(* gcd(a, b), and its callers lcm and multiplicative_order *)

GcdArgs_div(i, j) == <<j, PyFloorDiv(i, j)>>

\* the arguments of the recursive call gcd(b, a % b)
GcdArgs(i, j) == <<j, PyMod(i, j)>>

CallGcd(va, vb) ==
    /\ pc = "done"
    /\ Enter("gcd", "gcd", va, vb, 0, va, vb, 0, 0)
    /\ UNCHANGED memos
    /\ UNCHANGED ext

CallLcm(va, vb) ==
    /\ pc = "done"
    /\ Enter("lcm", "gcd", va, vb, 0, va, vb, 0, 0)
    /\ UNCHANGED memos
    /\ UNCHANGED ext

CallMultiplicativeOrder(va, vn) ==
    /\ pc = "done"
    /\ Enter("multiplicative_order", "gcd", va, 0, vn, va, vn, 0, 0)
    /\ UNCHANGED memos
    /\ UNCHANGED ext

\* gcd(b, a % b) if b
GcdRecurse ==
    /\ pc = "gcd" /\ gb # 0
    /\ ga' = GcdArgs(ga, gb)[1] /\ gb' = GcdArgs(ga, gb)[2]
    /\ UNCHANGED <<fn, pc, a, b, n, x, y, k, ret, ret_list, ret_bool, exc>>
    /\ UNCHANGED memos
    /\ UNCHANGED ext

LcmResult_noabs(va, vb, g) == PyFloorDiv(va * vb, g)

\* abs(a * b) // gcd(a, b)
LcmResult(va, vb, g) == PyFloorDiv(Abs(va * vb), g)

\* else a: the innermost gcd frame returns to whoever called gcd
GcdReturn ==
    /\ pc = "gcd" /\ gb = 0
    /\ \/ /\ fn = "gcd"
          /\ pc' = "done" /\ ret' = ga /\ UNCHANGED <<exc, k>>
       \/ /\ fn = "lcm"
          /\ pc' = "done" /\ UNCHANGED k
          /\ IF ga = 0
             THEN exc' = "ZeroDivisionError" /\ UNCHANGED ret
             ELSE ret' = LcmResult(a, b, ga) /\ UNCHANGED exc
       \/ /\ fn = "multiplicative_order"
          /\ IF ga # 1
             THEN pc' = "done" /\ exc' = "ValueError" /\ UNCHANGED <<ret, k>>
             ELSE pc' = "mo_loop" /\ k' = 1 /\ UNCHANGED <<ret, exc>>
    /\ UNCHANGED <<fn, a, b, n, ga, gb, x, y, ret_list, ret_bool>>
    /\ UNCHANGED memos
    /\ UNCHANGED ext

\* for k in it.count(1): if (a ** k) % n == 1: return k
MultiplicativeOrderStep ==
    /\ pc = "mo_loop"
    /\ IF n = 0
       THEN pc' = "done" /\ exc' = "ZeroDivisionError" /\ UNCHANGED <<ret, k>>
       ELSE IF PyMod(Pow(a, k), n) = 1
       THEN pc' = "done" /\ ret' = k /\ UNCHANGED <<exc, k>>
       ELSE k < MaxK /\ k' = k + 1 /\ UNCHANGED <<pc, ret, exc>>
    /\ UNCHANGED <<fn, a, b, n, ga, gb, x, y, ret_list, ret_bool>>
    /\ UNCHANGED memos
    /\ UNCHANGED ext

----------------------------------------------------------------------------
(* isqrt(n): Newton's method *)

NewtonNext_prec(vx, vn) == PyFloorDiv(PyFloorDiv(vx + vn, vx), 2)

\* (x + n // x) // 2
NewtonNext(vx, vn) == PyFloorDiv(vx + PyFloorDiv(vn, vx), 2)

CallIsqrt(vn) ==
    /\ pc = "done"
    /\ IF vn = 0
       THEN Finish("isqrt", 0, 0, vn, 0, <<>>, FALSE, "none")
       ELSE Enter("isqrt", "isqrt_loop", 0, 0, vn, 0, 0, vn, NewtonNext(vn, vn))
    /\ UNCHANGED memos
    /\ UNCHANGED ext

\* while y < x: x = y; y = (x + n // x) // 2
IsqrtLoop ==
    /\ pc = "isqrt_loop" /\ y < x
    /\ x' = y /\ y' = NewtonNext(y, n)
    /\ UNCHANGED <<fn, pc, a, b, n, ga, gb, k, ret, ret_list, ret_bool, exc>>
    /\ UNCHANGED memos
    /\ UNCHANGED ext

\* if x ** 2 != n: raise ValueError(...); return x
IsqrtExit ==
    /\ pc = "isqrt_loop" /\ ~(y < x)
    /\ fn = "isqrt"
    /\ pc' = "done"
    /\ IF x * x # n
       THEN exc' = "ValueError" /\ UNCHANGED ret
       ELSE ret' = x /\ UNCHANGED exc
    /\ UNCHANGED <<fn, a, b, n, ga, gb, x, y, k, ret_list, ret_bool>>
    /\ UNCHANGED memos
    /\ UNCHANGED ext

----------------------------------------------------------------------------
(* is_pentagonal(n) and is_hexagonal(n): callers of isqrt *)

PentagonalRoot_minus(vx) == PyMod(vx - 1, 6) = 0

\* (x + 1) % 6 == 0
PentagonalRoot(vx) == PyMod(vx + 1, 6) = 0

\* (x + 1) % 4 == 0
HexagonalRoot(vx) == PyMod(vx + 1, 4) = 0

\* the return statement after the try block, for the caller f of isqrt
PolygonalRoot(f, vx) ==
    IF f = "is_pentagonal" THEN PentagonalRoot(vx) ELSE HexagonalRoot(vx)

\* x = isqrt(24 * n + 1) and x = isqrt(8 * n + 1): the argument m of f is
\* kept in a, the frame of isqrt runs on vn
CallPolygonal(f, m, vn) ==
    /\ pc = "done"
    /\ IF vn = 0
       THEN Finish(f, m, 0, vn, 0, <<>>, PolygonalRoot(f, 0), "none")
       ELSE Enter(f, "isqrt_loop", m, 0, vn, 0, 0, vn, NewtonNext(vn, vn))
    /\ UNCHANGED memos
    /\ UNCHANGED ext

CallIsPentagonal(m) == CallPolygonal("is_pentagonal", m, 24 * m + 1)

CallIsHexagonal(m) == CallPolygonal("is_hexagonal", m, 8 * m + 1)

\* isqrt leaves its loop inside the try block: its ValueError is caught
\* (return False), its value x goes to the return statement
PolygonalReturn ==
    /\ pc = "isqrt_loop" /\ ~(y < x)
    /\ fn \in {"is_pentagonal", "is_hexagonal"}
    /\ pc' = "done"
    /\ ret_bool' = IF x * x # n THEN FALSE ELSE PolygonalRoot(fn, x)
    /\ UNCHANGED <<fn, a, b, n, ga, gb, x, y, k, ret, ret_list, exc>>
    /\ UNCHANGED memos
    /\ UNCHANGED ext

----------------------------------------------------------------------------
(* The library driven by an arbitrary caller *)

Next ==
    \/ \E m \in MinN..MaxN : CallPrimes(m)
    \/ \E m \in MinN..MaxN : CallFactorise(m)
    \/ \E m \in MinN..MaxN : CallDivisors(m)
    \/ \E va \in 0..MaxG, vb \in 0..MaxG : CallGcd(va, vb)
    \/ \E va \in (0 - MaxL)..MaxL, vb \in (0 - MaxL)..MaxL : CallLcm(va, vb)
    \/ \E va \in (0 - MaxBase)..MaxBase, vn \in 0..MaxModulus :
          CallMultiplicativeOrder(va, vn)
    \/ GcdRecurse
    \/ GcdReturn
    \/ MultiplicativeOrderStep
    \/ \E vn \in MinN..MaxSq : CallIsqrt(vn)
    \/ IsqrtLoop
    \/ IsqrtExit
    \/ \E m \in MinN..MaxN : CallIsPentagonal(m)
    \/ \E m \in MinN..MaxN : CallIsHexagonal(m)
    \/ PolygonalReturn

Spec == Init /\ [][Next]_vars

\* the interpreter always executes the next statement of a running frame
FairSpec == Spec /\ WF_vars(Next)

----------------------------------------------------------------------------
(* The memoised functions, each driven by an arbitrary sequence of calls *)

CallIsPrime(m) ==
    /\ pc = "done"
    /\ m \in DOMAIN prime_memo \/ Cardinality(DOMAIN prime_memo) < 3 + MaxMemo
    /\ Finish("is_prime", 0, 0, m, 0, <<>>,
              is_prime(m, prime_memo)[1], "none")
    /\ prime_memo' = is_prime(m, prime_memo)[2]
    /\ UNCHANGED <<fib_memo, collatz_memo>>
    /\ UNCHANGED ext

NextPrime == \E m \in MinN..MaxP : CallIsPrime(m)

SpecPrime == Init /\ [][NextPrime]_vars

CallFibR(m) ==
    /\ pc = "done"
    /\ Finish("fib_r", 0, 0, m, fib_r(m, fib_memo)[1], <<>>, FALSE, "none")
    /\ fib_memo' = fib_r(m, fib_memo)[2]
    /\ UNCHANGED <<prime_memo, collatz_memo>>
    /\ UNCHANGED ext

CallFibI(m) ==
    /\ pc = "done"
    /\ Finish("fib_i", 0, 0, m, fib_i(m), <<>>, FALSE, "none")
    /\ UNCHANGED memos
    /\ UNCHANGED ext

NextFib ==
    \/ \E m \in 0..MaxFib : CallFibR(m)
    \/ \E m \in 0..MaxFib : CallFibI(m)

SpecFib == Init /\ [][NextFib]_vars

CallCollatz(m) ==
    /\ pc = "done"
    /\ Finish("collatz", 0, 0, m, 0, collatz(m, collatz_memo)[1],
              FALSE, "none")
    /\ collatz_memo' = collatz(m, collatz_memo)[2]
    /\ UNCHANGED <<prime_memo, fib_memo>>
    /\ UNCHANGED ext

NextCollatz == \E m \in 1..MaxCollatz : CallCollatz(m)

SpecCollatz == Init /\ [][NextCollatz]_vars

----------------------------------------------------------------------------
(* A SetOfThings instance driven by an arbitrary sequence of queries *)

\* s = SetOfThings(test_callable)
SotNew(test) ==
    /\ pc = "done"
    /\ Finish("SetOfThings", 0, 0, 0, 0, <<>>, FALSE, "none")
    /\ sot_test' = test
    /\ sot_memo' = <<>>
    /\ sot_calls' = [key \in SotKeys |-> 0]
    /\ UNCHANGED <<memos, solutions, harness, hand>>

\* key in s: the operator `in` converts what __contains__ returns to bool
SotQuery(key) ==
    /\ pc = "done"
    /\ fn \in {"SetOfThings", "contains"}
    /\ LET r == SotContains(key, sot_memo, sot_calls, sot_test)
       IN  /\ Finish("contains", 0, 0, key, r[1], <<>>, Truth(r[1]), "none")
           /\ sot_memo' = r[2]
           /\ sot_calls' = r[3]
    /\ UNCHANGED <<sot_test, memos, solutions, harness, hand>>

NextSot ==
    \/ \E test \in [SotKeys -> SotValues] : SotNew(test)
    \/ \E key \in SotKeys : SotQuery(key)

SpecSot == Init /\ [][NextSot]_vars

----------------------------------------------------------------------------
(* The harness of __main__ *)

\* problems = [f'p{n:03d}' for n in args.ids], or the modules found by
\* glob; the loop runs over sorted(problems)
HarnessStart(ids) ==
    /\ pc = "done"
    /\ ids # {}
    /\ Enter("harness", "harness_loop", 0, 0, 0, 0, 0, 0, 0)
    /\ todo' = Sorted(ids)
    /\ answer' = None /\ expected' = None
    /\ UNCHANGED <<memos, sot, solutions, hand>>

\* delta, answer = my_timeit(get_result, p), then the two print calls:
\* the second one formats answer with the code 16d
HarnessPrint(r) ==
    /\ pc = "harness_loop" /\ todo # <<>>
    /\ r \in ModuleResults(Head(todo))
    /\ answer' = r
    /\ IF Format16d(r) = "none"
       THEN pc' = "harness_assert" /\ UNCHANGED exc
       ELSE pc' = "done" /\ exc' = Format16d(r)
    /\ UNCHANGED <<fn, a, b, n, ga, gb, x, y, k, ret, ret_list, ret_bool>>
    /\ UNCHANGED <<todo, expected>>
    /\ UNCHANGED <<memos, sot, solutions, hand>>

\* assert answer == my_answers[p]
HarnessAssert(e) ==
    /\ pc = "harness_assert"
    /\ expected' = e
    /\ IF PyEq(answer, e)
       THEN pc' = "harness_loop" /\ todo' = Tail(todo) /\ UNCHANGED exc
       ELSE pc' = "done" /\ exc' = "AssertionError" /\ UNCHANGED todo
    /\ UNCHANGED <<fn, a, b, n, ga, gb, x, y, k, ret, ret_list, ret_bool>>
    /\ UNCHANGED answer
    /\ UNCHANGED <<memos, sot, solutions, hand>>

\* the loop is exhausted
HarnessEnd ==
    /\ pc = "harness_loop" /\ todo = <<>>
    /\ pc' = "done"
    /\ UNCHANGED <<fn, a, b, n, ga, gb, x, y, k, ret, ret_list, ret_bool, exc>>
    /\ UNCHANGED <<memos, sot, solutions, harness, hand>>

NextHarness ==
    \/ \E ids \in SUBSET ProblemIds : HarnessStart(ids)
    \/ \E r \in ResultValues : HarnessPrint(r)
    \/ \E e \in RecordedAnswers : HarnessAssert(e)
    \/ HarnessEnd

SpecHarness == Init /\ [][NextHarness]_vars

----------------------------------------------------------------------------
(* Solutions and library calls in one process, in any order *)

\* import_module(f'euler.{m}'): a module body runs once per process
RunSolution(m) ==
    /\ pc = "done"
    /\ results[m] = NotRun
    /\ LET r == RunModule(m, Tables(prime_memo, Primes_memo))
       IN  /\ Finish(m, 0, 0, 0, r[1], <<>>, FALSE, "none")
           /\ results' = [results EXCEPT ![m] = r[1]]
           /\ prime_memo' = r[2].pm
           /\ Primes_memo' = r[2].sm
    /\ UNCHANGED <<fib_memo, collatz_memo, sot, harness, hand>>

\* v in Primes, called from outside the solutions
CallInPrimes(v) ==
    /\ pc = "done"
    /\ v \in DOMAIN Primes_memo \/ Cardinality(DOMAIN Primes_memo) < MaxMemo
    /\ LET r == InPrimes(v, Tables(prime_memo, Primes_memo))
       IN  /\ Finish("Primes", 0, 0, v, 0, <<>>, r[1], "none")
           /\ prime_memo' = r[2].pm
           /\ Primes_memo' = r[2].sm
    /\ UNCHANGED <<results, fib_memo, collatz_memo, sot, harness, hand>>

NextOrder ==
    \/ \E m \in Solutions : RunSolution(m)
    \/ \E v \in 0..MaxLib : CallInPrimes(v)
    \/ \E v \in 0..MaxLib : CallIsPrime(v)

SpecOrder == Init /\ [][NextOrder]_vars

----------------------------------------------------------------------------
(* p054: Hand(cards), the list cards.split() consumed one string at a time *)

\* Hand(cards): cards.split() is about to be iterated
HandNew ==
    /\ pc = "done"
    /\ Enter("Hand", "hand_cards", 0, 0, 0, 0, 0, 0, 0)
    /\ tokens' = <<>> /\ cards' = <<>>
    /\ rank' = "None" /\ high_card' = NoCard
    /\ UNCHANGED <<memos, sot, solutions, harness>>

\* Card(x) for the next x of cards.split(): an exception leaves the list
\* comprehension and Hand.__init__
HandCard(vs) ==
    /\ pc = "hand_cards"
    /\ Len(tokens) < MaxTokens
    /\ tokens' = Append(tokens, vs)
    /\ IF Card(vs).exc # "none"
       THEN pc' = "done" /\ exc' = Card(vs).exc /\ UNCHANGED cards
       ELSE cards' = Append(cards, Card(vs).card) /\ UNCHANGED <<pc, exc>>
    /\ UNCHANGED <<fn, a, b, n, ga, gb, x, y, k, ret, ret_list, ret_bool>>
    /\ UNCHANGED <<rank, high_card>>
    /\ UNCHANGED <<memos, sot, solutions, harness>>

\* cards.split() is exhausted: the list is sorted and stored, then checked
HandCheck ==
    /\ pc = "hand_cards"
    /\ pc' = "done"
    /\ cards' = SortedByValue(cards)
    /\ rank' = HandChecked(SortedByValue(cards)).rank
    /\ high_card' = HandChecked(SortedByValue(cards)).high_card
    /\ exc' = HandChecked(SortedByValue(cards)).exc
    /\ UNCHANGED <<fn, a, b, n, ga, gb, x, y, k, ret, ret_list, ret_bool>>
    /\ UNCHANGED tokens
    /\ UNCHANGED <<memos, sot, solutions, harness>>

NextHand ==
    \/ HandNew
    \/ \E vs \in TokenPool : HandCard(vs)
    \/ HandCheck

SpecHand == Init /\ [][NextHand]_vars

----------------------------------------------------------------------------
(* Properties *)

PrimesBelow(m) == {p \in 0..(m - 1) : IsPrimeNumber(p)}

\* C1: primes(n) returns, strictly ascending and without duplicates,
\* exactly the primes p < n, and the empty list for every n <= 2
C1_PrimesBelowN ==
    (fn = "primes" /\ pc = "done") =>
        /\ StrictlyAscending(ret_list)
        /\ Range(ret_list) = PrimesBelow(n)
        /\ (n <= 2 => ret_list = <<>>)

C1_Witness ==
    fn = "primes" /\ pc = "done" /\ n = 30 /\ Len(ret_list) = 10 /\ ret_list[10] = 29

\* C2: is_prime(n) is True exactly when n is prime, for every integer n and
\* after any earlier calls; every entry of the shared memo table equals the
\* primality of its key
C2_IsPrimeCorrect ==
    /\ (fn = "is_prime" /\ pc = "done") => (ret_bool = IsPrimeNumber(n))
    /\ \A key \in DOMAIN prime_memo : prime_memo[key] = IsPrimeNumber(key)

C2_Witness ==
    /\ fn = "is_prime" /\ pc = "done" /\ n = 25 /\ ret_bool = FALSE
    /\ DOMAIN prime_memo = {1, 2, 3, 23, 25}

\* C3: for every n >= 1, factorise(n) is a non-decreasing list of prime
\* numbers whose product is n
C3_FactoriseAllPrime ==
    (fn = "factorise" /\ pc = "done" /\ n >= 1) =>
        /\ NonDecreasing(ret_list)
        /\ \A i \in 1..Len(ret_list) : IsPrimeNumber(ret_list[i])
        /\ SeqProduct(ret_list) = n

\* C4: for every n >= 1, divisors(n) is strictly ascending and contains
\* exactly the positive d with n mod d = 0; first element 1, last element n
C4_DivisorsExact ==
    (fn = "divisors" /\ pc = "done" /\ n >= 1) =>
        /\ StrictlyAscending(ret_list)
        /\ Range(ret_list) = {d \in 1..n : n % d = 0}
        /\ ret_list[1] = 1
        /\ ret_list[Len(ret_list)] = n

C4_Witness ==
    fn = "divisors" /\ pc = "done" /\ n = 36
       /\ ret_list = <<1, 2, 3, 4, 6, 9, 12, 18, 36>>

CommonDivisors(i, j) ==
    {d \in 1..(Abs(i) + Abs(j)) : Divides(d, i) /\ Divides(d, j)}

\* C5: for non-negative a and b, not both zero, gcd(a, b) terminates and
\* returns the greatest positive integer dividing both (a value symmetric
\* in a and b), with gcd(a, 0) = a
C5_GcdGreatest ==
    /\ []((fn = "gcd" /\ pc = "done" /\ (a # 0 \/ b # 0)) =>
            /\ ret \in CommonDivisors(a, b)
            /\ \A d \in CommonDivisors(b, a) : d <= ret
            /\ (b = 0 => ret = a))
    /\ ((fn = "gcd" /\ pc = "gcd") ~> (fn = "gcd" /\ pc = "done"))

C5_Witness ==
    fn = "gcd" /\ pc = "done" /\ a = 8 /\ b = 12 /\ ret = 4

CommonMultiples(i, j) ==
    {m \in 1..Abs(i * j) : Divides(i, m) /\ Divides(j, m)}

\* C6: for all non-zero a and b of either sign, lcm(a, b) is the smallest
\* positive integer that is a multiple of both
C6_LcmLeastPositive ==
    (fn = "lcm" /\ pc = "done" /\ a # 0 /\ b # 0) =>
        /\ exc = "none"
        /\ ret \in CommonMultiples(a, b)
        /\ \A m \in CommonMultiples(a, b) : ret <= m

\* a ** j is congruent to 1 modulo m
PowerIsOne(i, j, m) == PyMod(Pow(i, j) - 1, m) = 0

\* C7: for gcd(a, n) = 1 and n >= 1, multiplicative_order(a, n) returns
\* the smallest positive k with a**k congruent to 1 modulo n: the search
\* never runs past such a k, and the k returned is one
C7_OrderIsSmallest ==
    (fn = "multiplicative_order" /\ n >= 1) =>
        /\ pc = "mo_loop" => \A j \in 1..(k - 1) : ~PowerIsOne(a, j, n)
        /\ (pc = "done" /\ exc = "none") =>
              /\ PowerIsOne(a, ret, n)
              /\ \A j \in 1..(ret - 1) : ~PowerIsOne(a, j, n)

IsPerfectSquare(m) == \E s \in 0..m : s * s = m

\* C8: for n >= 0, isqrt(n) terminates; it returns the x >= 0 with
\* x*x = n when n is a perfect square and raises ValueError otherwise
C8_IsqrtExact ==
    /\ []((fn = "isqrt" /\ pc = "done" /\ n >= 0) =>
            IF IsPerfectSquare(n)
            THEN exc = "none" /\ ret >= 0 /\ ret * ret = n
            ELSE exc = "ValueError")
    /\ ((fn = "isqrt" /\ pc = "isqrt_loop" /\ n >= 0)
           ~> (fn = "isqrt" /\ pc = "done"))

C8_Witness ==
    fn = "isqrt" /\ pc = "done" /\ n = 49 /\ ret = 7 /\ exc = "none"

RECURSIVE Fibonacci(_)
Fibonacci(i) == IF i < 2 THEN i ELSE Fibonacci(i - 1) + Fibonacci(i - 2)

\* C9: for n >= 0, fib_r(n) and fib_i(n) return the same value, the n-th
\* Fibonacci number, whatever the shared memo table already holds
C9_FibAgree ==
    /\ (fn = "fib_r" /\ pc = "done") =>
           ret = fib_i(n) /\ ret = Fibonacci(n)
    /\ (fn = "fib_i" /\ pc = "done") => ret = Fibonacci(n)
    /\ \A key \in DOMAIN fib_memo : fib_memo[key] = fib_i(key)

C9_Witness ==
    /\ fn = "fib_r" /\ pc = "done" /\ n = 10 /\ ret = 55
    /\ DOMAIN fib_memo = 0..12

\* s is the Collatz orbit of m up to its first 1
IsCollatzOrbit(s, m) ==
    /\ Len(s) >= 1
    /\ s[1] = m
    /\ s[Len(s)] = 1
    /\ \A i \in 1..(Len(s) - 1) :
          /\ s[i] # 1
          /\ s[i + 1] = IF s[i] % 2 = 0 THEN s[i] \div 2 ELSE 3 * s[i] + 1

\* C10: collatz(n) starts with n, ends with its only 1, and steps by
\* x/2 (x even) or 3x+1 (x odd), whichever calls were made before;
\* collatz(13) = [13, 40, 20, 10, 5, 16, 8, 4, 2, 1]
C10_CollatzOrbit ==
    /\ (fn = "collatz" /\ pc = "done") => IsCollatzOrbit(ret_list, n)
    /\ (fn = "collatz" /\ pc = "done" /\ n = 13) =>
           ret_list = <<13, 40, 20, 10, 5, 16, 8, 4, 2, 1>>
    /\ \A key \in DOMAIN collatz_memo :
           IsCollatzOrbit(collatz_memo[key], key)

C10_Witness ==
    /\ fn = "collatz" /\ pc = "done" /\ n = 13
    /\ ret_list = <<13, 40, 20, 10, 5, 16, 8, 4, 2, 1>>
    /\ 7 \in DOMAIN collatz_memo

\* C11: every key of a SetOfThings memo holds test_callable(key), every
\* query `n in s` answers the truth value of test_callable(n), and
\* test_callable is invoked at most once for each distinct queried value
C11_SetOfThingsMemo ==
    /\ \A key \in DOMAIN sot_memo : sot_memo[key] = sot_test[key]
    /\ (fn = "contains" /\ pc = "done") =>
           /\ ret_bool = Truth(sot_test[n])
           /\ n \in DOMAIN sot_memo
    /\ \A key \in SotKeys :
           sot_calls[key] = IF key \in DOMAIN sot_memo THEN 1 ELSE 0

C11_Witness ==
    /\ fn = "contains" /\ pc = "done" /\ n = 1
    /\ sot_test[1] = 2 /\ ret_bool = TRUE
    /\ DOMAIN sot_memo = {0, 1} /\ sot_calls[1] = 1

\* m = k(3k-1)/2 for some integer k >= 1
IsPentagonalNumber(m) == \E j \in 1..(Abs(m) + 1) : 2 * m = j * (3 * j - 1)

\* m = k(2k-1) for some integer k >= 1
IsHexagonalNumber(m) == \E j \in 1..(Abs(m) + 1) : m = j * (2 * j - 1)

\* C12: for every integer n, zero and negative values included,
\* is_pentagonal(n) is True exactly when n = k(3k-1)/2 for some k >= 1 and
\* is_hexagonal(n) exactly when n = k(2k-1) for some k >= 1; isqrt's
\* ValueError never escapes either test
C12_PolygonalTests ==
    /\ fn \in {"is_pentagonal", "is_hexagonal"} => exc = "none"
    /\ (fn = "is_pentagonal" /\ pc = "done") =>
           ret_bool = IsPentagonalNumber(a)
    /\ (fn = "is_hexagonal" /\ pc = "done") =>
           ret_bool = IsHexagonalNumber(a)

C12_Witness ==
    /\ fn = "is_pentagonal" /\ pc = "done" /\ a = 35 /\ n = 841 /\ x = 29
    /\ ret_bool = TRUE

\* C13: for every module the harness selects the run reaches the
\* comparison with my_answers[p] whatever the result is, and fails there
\* if and only if the two differ: a run of the harness ends with no
\* exception other than the AssertionError of a differing answer, and the
\* loop goes on only past answers that compared equal
C13_HarnessReachesComparison ==
    fn = "harness" =>
        /\ (pc = "done" /\ exc # "none") =>
               exc = "AssertionError" /\ ~PyEq(answer, expected)
        /\ pc = "harness_loop" => PyEq(answer, expected)

\* C14: whatever solutions and library calls ran earlier in the process,
\* each solution that shares is_prime's memo and the memo of Primes yields
\* the result it yields when it runs first in a fresh process
C14_OrderIndependent ==
    \A m \in Solutions : results[m] # NotRun => results[m] = FreshResults[m]

\* all three solutions ran, p041 last, and so did the library call
\* `0 in Primes`, which no solution makes
C14_Witness ==
    /\ fn = "p041" /\ pc = "done" /\ ret = 4231
    /\ results["p035"] = FreshResults["p035"] /\ results["p037"] # NotRun
    /\ 0 \in DOMAIN Primes_memo

----------------------------------------------------------------------------
(* C15 *)

\* the characters the claim allows for a value and for a suit
ValueChars == {"2", "3", "4", "5", "6", "7", "8", "9", "T", "J", "Q", "K", "A"}

SuitChars == {"C", "S", "D", "H"}

IsCardText(t) == Len(t) = 2 /\ t[1] \in ValueChars /\ t[2] \in SuitChars

\* exactly five whitespace-separated two-character cards
IsHandText(ts) == Len(ts) = 5 /\ \A i \in DOMAIN ts : IsCardText(ts[i])

HandRanks ==
    {"High Card", "One Pair", "Two Pairs", "Three of a Kind", "Straight",
     "Flush", "Full House", "Four of a Kind", "Straight Flush", "Royal Flush"}

\* C15: when Hand(cards) has ended, it has raised ValueError, and no other
\* exception, if cards is not made of exactly five two-character cards (a
\* value in 23456789TJQKA followed by a suit in CSDH); if it is, the
\* construction has succeeded, with rank and high_card set
C15_HandValueError ==
    (fn = "Hand" /\ pc = "done") =>
        IF IsHandText(tokens)
        THEN exc = "none" /\ rank \in HandRanks /\ high_card # NoCard
        ELSE exc = "ValueError"

\* a hand of five cards was built and ranked by the deepest branch of
\* _check_hand
C15_Witness ==
    /\ fn = "Hand" /\ pc = "done" /\ exc = "none"
    /\ Len(tokens) = 5 /\ rank = "Two Pairs" /\ high_card.value = 10

====
